---- MODULE Spec2Model ----
(***************************************************************************)
(* Credit card validator (src/main.cpp): one run of main().                *)
(* Strings are sequences of ASCII codes, so that isdigit, c - '0', substr, *)
(* stoi, operator>>(int&) and to_string are modelled by what they compute. *)
(***************************************************************************)
EXTENDS Integers, Sequences, FiniteSets, TLC

VARIABLES pc, number, expiry, holder, cvvText, cvv, card, luhnValid,
          month, year, currentMonth, currentYear,
          out, err, log, logBefore, exc, calls

vars == <<pc, number, expiry, holder, cvvText, cvv, card, luhnValid,
          month, year, currentMonth, currentYear,
          out, err, log, logBefore, exc, calls>>

----------------------------------------------------------------------------
(* Bounds of the model *)

\* card numbers are tried with lengths down to MinLen - LenSlack and up to MaxLen + LenSlack
LenSlack == 1
\* the digits between prefix and check digit repeat one of MaxFill + 1 digits
MaxFill == 1
\* the clock runs over 2024 .. 2024 + MaxClockYears
MaxClockYears == 1
\* expiry years of the classifier grid: 2023 .. 2024 + MaxYearsAhead
MaxYearsAhead == 2

----------------------------------------------------------------------------
(* Program constants *)

MinLen == 13
MaxLen == 19
SoonWindow == 6
IntMax == 2147483647
IntMin == (0 - IntMax) - 1

----------------------------------------------------------------------------
(* Characters and strings *)

Ch0 == 48
Minus == 45
Plus == 43

\* the decimal digit d as a character
Dg(d) == Ch0 + d

\* a digit string from its digits
Str(ds) == [i \in 1..Len(ds) |-> Dg(ds[i])]

isdigit(c) == c >= 48 /\ c <= 57

\* std::string::substr(pos, n) for pos <= size (0-based pos)
substr(s, pos, n) ==
    LET last == IF pos + n > Len(s) THEN Len(s) ELSE pos + n
    IN  SubSeq(s, pos + 1, last)

\* length of the leading run of decimal digits of s from 1-based index i
RECURSIVE DigitRun(_, _)
DigitRun(s, i) ==
    IF i > Len(s) \/ ~isdigit(s[i]) THEN 0 ELSE 1 + DigitRun(s, i + 1)

\* magnitude of the decimal digits s[i .. i+n-1], accumulated left to right;
\* TooBig once it no longer fits an int
TooBig == 0 - 1
RECURSIVE DigitsValue(_, _, _, _)
DigitsValue(s, i, n, acc) ==
    IF n = 0 THEN acc
    ELSE IF acc > (IntMax - (s[i] - Ch0)) \div 10 THEN TooBig
    ELSE DigitsValue(s, i + 1, n - 1, acc * 10 + (s[i] - Ch0))

\* optional sign, then decimal digits: the prefix strtol and num_get accept
HasSign(s) == Len(s) > 0 /\ (s[1] = Minus \/ s[1] = Plus)
Negative(s) == Len(s) > 0 /\ s[1] = Minus
NumStart(s) == IF HasSign(s) THEN 2 ELSE 1
NumDigits(s) == DigitRun(s, NumStart(s))
NumMagnitude(s) == DigitsValue(s, NumStart(s), NumDigits(s), 0)
NumValue(s) == IF Negative(s) THEN 0 - NumMagnitude(s) ELSE NumMagnitude(s)

\* std::stoi: throws std::invalid_argument when no digits can be converted,
\* std::out_of_range when the value does not fit
StoiThrows(s) == NumDigits(s) = 0 \/ NumMagnitude(s) = TooBig
stoi(s) == NumValue(s)

\* cin >> (int&): on failure stores 0 (no digits) or the nearest limit
\* (overflow) and sets failbit; nothing is thrown
CinInt(s) ==
    IF NumDigits(s) = 0 THEN 0
    ELSE IF NumMagnitude(s) = TooBig THEN (IF Negative(s) THEN IntMin ELSE IntMax)
    ELSE NumValue(s)

\* std::to_string(int)
RECURSIVE NatToString(_)
NatToString(n) ==
    IF n < 10 THEN <<Dg(n)>> ELSE Append(NatToString(n \div 10), Dg(n % 10))
to_string(n) ==
    IF n = IntMin THEN <<Minus>> \o Append(NatToString(IntMax \div 10), Dg((IntMax % 10) + 1))
    ELSE IF n < 0 THEN <<Minus>> \o NatToString(0 - n)
    ELSE NatToString(n)

----------------------------------------------------------------------------
(* CreditCard *)

NoCard == [cardNumber |-> <<>>, expiryDate |-> <<>>, cardHolder |-> "",
           cardType |-> "", cvv |-> 0, exists |-> FALSE]

\* CreditCard / EnhancedCard constructor: cardType is default-constructed
CreditCard(n, e, h, c) ==
    [cardNumber |-> n, expiryDate |-> e, cardHolder |-> h,
     cardType |-> "", cvv |-> c, exists |-> TRUE]

MaskPrefix == "XXXX-XXXX-XXXX-"

maskCardNumber(cardNumber) ==
    <<MaskPrefix, substr(cardNumber, Len(cardNumber) - 4, 4)>>

\* mutant: the alternation toggles on every character, digit or not
RECURSIVE LuhnLoop_ToggleAlways(_, _, _, _)
LuhnLoop_ToggleAlways(s, i, sum, alternate) ==
    IF i < 1 THEN sum
    ELSE IF isdigit(s[i])
         THEN LET n  == s[i] - Ch0
                  n2 == IF alternate
                        THEN (IF n * 2 > 9 THEN n * 2 - 9 ELSE n * 2)
                        ELSE n
              IN  LuhnLoop_ToggleAlways(s, i - 1, sum + n2, ~alternate)
         ELSE LuhnLoop_ToggleAlways(s, i - 1, sum, ~alternate)
validateCardNumber_ToggleAlways(cardNumber) ==
    LuhnLoop_ToggleAlways(cardNumber, Len(cardNumber), 0, FALSE) % 10 = 0

\* the loop of validateCardNumber, i counted 1-based from the right end
RECURSIVE LuhnLoop(_, _, _, _)
LuhnLoop(s, i, sum, alternate) ==
    IF i < 1 THEN sum
    ELSE IF isdigit(s[i])
         THEN LET n  == s[i] - Ch0
                  n2 == IF alternate
                        THEN (IF n * 2 > 9 THEN n * 2 - 9 ELSE n * 2)
                        ELSE n
              IN  LuhnLoop(s, i - 1, sum + n2, ~alternate)
         ELSE LuhnLoop(s, i - 1, sum, alternate)

validateCardNumber(cardNumber) ==
    LuhnLoop(cardNumber, Len(cardNumber), 0, FALSE) % 10 = 0

\* mutant: MasterCard taken as the range 51-53
detectCardType_Wide(cardNumber) ==
    IF cardNumber[1] = Dg(4) THEN "Visa"
    ELSE IF substr(cardNumber, 0, 2) \in {Str(<<5, 1>>), Str(<<5, 2>>), Str(<<5, 3>>)}
         THEN "MasterCard"
    ELSE IF substr(cardNumber, 0, 2) \in {Str(<<3, 4>>), Str(<<3, 7>>)}
         THEN "American Express"
    ELSE "Unknown"

detectCardType(cardNumber) ==
    IF cardNumber[1] = Dg(4) THEN "Visa"
    ELSE IF substr(cardNumber, 0, 2) = Str(<<5, 1>>)
            \/ substr(cardNumber, 0, 2) = Str(<<5, 2>>) THEN "MasterCard"
    ELSE IF substr(cardNumber, 0, 2) = Str(<<3, 4>>)
            \/ substr(cardNumber, 0, 2) = Str(<<3, 7>>) THEN "American Express"
    ELSE "Unknown"

isCVVValid(cardType, c) ==
    \/ (cardType = "American Express" /\ Len(to_string(c)) = 4)
    \/ (cardType # "American Express" /\ Len(to_string(c)) = 3)

\* checkExpiry, parsing: stoi(substr(0,2)), then substr(3,2) (out_of_range
\* when the string is shorter than 3), then stoi("20" + ...)
ExpiryMonthText(e) == substr(e, 0, 2)
ExpiryYearText(e) == Str(<<2, 0>>) \o substr(e, 3, 2)
ExpiryThrows(e) ==
    \/ StoiThrows(ExpiryMonthText(e))
    \/ 3 > Len(e)
    \/ StoiThrows(ExpiryYearText(e))

\* mutant: the window test is strict
ExpiryStatus_Strict(m, y, cm, cy) ==
    IF y < cy \/ (y = cy /\ m < cm) THEN "Expired"
    ELSE IF (y = cy /\ m - cm < SoonWindow) \/ (y = cy + 1 /\ cm > m)
         THEN "ExpiringSoon"
    ELSE "Valid"

\* mutant: the next-year disjunct is missing
ExpiryStatus_NoWrap(m, y, cm, cy) ==
    IF y < cy \/ (y = cy /\ m < cm) THEN "Expired"
    ELSE IF y = cy /\ m - cm <= SoonWindow THEN "ExpiringSoon"
    ELSE "Valid"

\* checkExpiry, classification: the status line printed
ExpiryStatus(m, y, cm, cy) ==
    IF y < cy \/ (y = cy /\ m < cm) THEN "Expired"
    ELSE IF (y = cy /\ m - cm <= SoonWindow) \/ (y = cy + 1 /\ cm > m)
         THEN "ExpiringSoon"
    ELSE "Valid"

\* mutant: the full number is logged
LogBlock_Unmasked(c) ==
    << <<"Card Holder: ", c.cardHolder>>,
       <<"Card Type: ", c.cardType>>,
       <<"Masked Card: ", <<MaskPrefix, c.cardNumber>> >>,
       <<"Expiry: ", c.expiryDate>>,
       <<"">> >>

\* logToFile: the block appended to card_log.txt
LogBlock(c) ==
    << <<"Card Holder: ", c.cardHolder>>,
       <<"Card Type: ", c.cardType>>,
       <<"Masked Card: ", maskCardNumber(c.cardNumber)>>,
       <<"Expiry: ", c.expiryDate>>,
       <<"">> >>

LengthMessage == "Invalid card number length!"
LuhnMessage == "Card number failed Luhn check! Invalid."
UnexpectedMessage == "Unexpected error occurred!"

NoException == [kind |-> "none", what |-> ""]
CardException(m) == [kind |-> "CardException", what |-> m]
OtherException == [kind |-> "std::exception", what |-> ""]

----------------------------------------------------------------------------
(* Inputs: what the user types and what the environment returns *)

Fill(k) == (k * 7) % 10
Body(n, f) == [i \in 1..n |-> Dg(f)]

\* two-character prefixes: 40 4a 51 52 53 34 37 35 60
Prefixes ==
    { <<52, 48>>, <<52, 97>>, <<53, 49>>, <<53, 50>>, <<53, 51>>,
      <<51, 52>>, <<51, 55>>, <<51, 53>>, <<54, 48>> }

Lens == ((MinLen - LenSlack) .. MinLen) \cup (MaxLen .. (MaxLen + LenSlack))

FamilyNumbers ==
    { p \o Body(L - 3, Fill(k)) \o <<Dg(t)>> :
        p \in Prefixes, L \in Lens, k \in 0..MaxFill, t \in 0..9 }

TestVector == Str(<<4,5,3,9,5,7,8,7,6,3,6,2,1,4,8,6>>)
TestVectorBumped == Str(<<4,5,3,9,5,7,8,7,6,3,6,2,1,4,8,7>>)
\* 4539-5787-6362-1486
TestVectorDashed ==
    Str(<<4,5,3,9>>) \o <<Minus>> \o Str(<<5,7,8,7>>) \o <<Minus>>
      \o Str(<<6,3,6,2>>) \o <<Minus>> \o Str(<<1,4,8,6>>)
\* thirteen letters
AllLetters == [i \in 1..MinLen |-> 97]

Numbers ==
    FamilyNumbers \cup {TestVector, TestVectorBumped, TestVectorDashed, AllLetters}

\* MM/YY
ExpiryText(m, y) ==
    Str(<<m \div 10, m % 10>>) \o <<47>>
      \o Str(<<(y % 100) \div 10, y % 10>>)

\* 12/24 03/24 01/26 and ab/25, 12, 1/25
ExpiryInputs ==
    { ExpiryText(12, 2024), ExpiryText(3, 2024), ExpiryText(1, 2026),
      <<97, 98, 47, 50, 53>>, Str(<<1, 2>>), <<49, 47, 50, 53>> }

ExpiryGrid ==
    { ExpiryText(m, y) : m \in 0..13, y \in 2023 .. (2024 + MaxYearsAhead) }
      \cup { <<97, 98, 47, 50, 53>>, Str(<<1, 2>>) }

Holders == { "Asha Rao", "Li" }

\* 123 012 1234 0123 abc -12 12 99999999999
CvvInputs ==
    { Str(<<1,2,3>>), Str(<<0,1,2>>), Str(<<1,2,3,4>>), Str(<<0,1,2,3>>),
      <<97, 98, 99>>, <<Minus>> \o Str(<<1,2>>), Str(<<1,2>>),
      Str(<<9,9,9,9,9,9,9,9,9,9,9>>) }

ClockMonths == 1..12
ClockYears == 2024 .. (2024 + MaxClockYears)

\* rand() % 100, sampled
RiskScores == { 0, 99 }

\* what card_log.txt holds before the run
OldLogs == { <<>>, << <<"Card Holder: ", "Old">>, <<"">> >> }

Prompts ==
    << <<"Welcome to Credit Card Validator">>,
       <<"Enter Card Number (no spaces or dashes): ">>,
       <<"Enter Expiry Date (MM/YY): ">>,
       <<"Enter Card Holder Name: ">>,
       <<"Enter CVV: ">> >>

----------------------------------------------------------------------------
(* main *)

Init ==
    /\ pc = "start"
    /\ number = <<>> /\ expiry = <<>> /\ holder = "" /\ cvvText = <<>>
    /\ cvv = 0
    /\ card = NoCard
    /\ luhnValid = FALSE
    /\ month = 0 /\ year = 0 /\ currentMonth = 0 /\ currentYear = 0
    /\ out = <<>> /\ err = <<>>
    /\ log \in OldLogs
    /\ logBefore = log
    /\ exc = NoException
    /\ calls = <<>>

\* lines 155-173: the welcome line, the four prompts and the four reads
ReadInput ==
    /\ pc = "start"
    /\ \E n \in Numbers, e \in ExpiryInputs, h \in Holders, c \in CvvInputs :
          /\ number' = n
          /\ expiry' = e
          /\ holder' = h
          /\ cvvText' = c
          /\ cvv' = CinInt(c)
    /\ out' = out \o Prompts
    /\ pc' = "guard"
    /\ UNCHANGED <<card, luhnValid, month, year, currentMonth, currentYear,
                   err, log, logBefore, exc, calls>>

\* mutant: only the lower limit is tested
FormatGuard_NoUpper ==
    /\ pc = "guard"
    /\ IF Len(number) < MinLen
       THEN /\ exc' = CardException(LengthMessage)
            /\ pc' = "catchCard"
       ELSE /\ exc' = exc
            /\ pc' = "construct"
    /\ UNCHANGED <<number, expiry, holder, cvvText, cvv, card, luhnValid,
                   month, year, currentMonth, currentYear,
                   out, err, log, logBefore, calls>>

\* lines 176-177
FormatGuard ==
    /\ pc = "guard"
    /\ IF Len(number) < MinLen \/ Len(number) > MaxLen
       THEN /\ exc' = CardException(LengthMessage)
            /\ pc' = "catchCard"
       ELSE /\ exc' = exc
            /\ pc' = "construct"
    /\ UNCHANGED <<number, expiry, holder, cvvText, cvv, card, luhnValid,
                   month, year, currentMonth, currentYear,
                   out, err, log, logBefore, calls>>

\* line 180
Construct ==
    /\ pc = "construct"
    /\ card' = CreditCard(number, expiry, holder, cvv)
    /\ pc' = "luhn"
    /\ UNCHANGED <<number, expiry, holder, cvvText, cvv, luhnValid,
                   month, year, currentMonth, currentYear,
                   out, err, log, logBefore, exc, calls>>

\* mutant: the result of the Luhn check is ignored
LuhnCheck_Ignored ==
    /\ pc = "luhn"
    /\ luhnValid' = validateCardNumber(card.cardNumber)
    /\ calls' = Append(calls, "validateCardNumber")
    /\ exc' = exc
    /\ pc' = "display"
    /\ UNCHANGED <<number, expiry, holder, cvvText, cvv, card,
                   month, year, currentMonth, currentYear,
                   out, err, log, logBefore>>

\* lines 183-184
LuhnCheck ==
    /\ pc = "luhn"
    /\ luhnValid' = validateCardNumber(card.cardNumber)
    /\ calls' = Append(calls, "validateCardNumber")
    /\ IF ~luhnValid'
       THEN /\ exc' = CardException(LuhnMessage)
            /\ pc' = "catchCard"
       ELSE /\ exc' = exc
            /\ pc' = "display"
    /\ UNCHANGED <<number, expiry, holder, cvvText, cvv, card,
                   month, year, currentMonth, currentYear,
                   out, err, log, logBefore>>

\* mutant: the CVV status line is not printed
DisplayHead_NoCvv(c, t) ==
    << <<"Card Holder: ", c.cardHolder>>,
       <<"Card Number (masked): ", maskCardNumber(c.cardNumber)>>,
       <<"Card Type: ", t>> >>

\* the lines displayCardInfo prints before it calls checkExpiry
DisplayHead(c, t) ==
    << <<"Card Holder: ", c.cardHolder>>,
       <<"Card Number (masked): ", maskCardNumber(c.cardNumber)>>,
       <<"Card Type: ", t>>,
       <<"CVV Status: ", IF isCVVValid(t, c.cvv) THEN "Valid" ELSE "Invalid">> >>

\* line 187: displayCardInfo, with checkExpiry and logToFile; when stoi or
\* substr throws, the lines printed so far stay printed and the locals of
\* checkExpiry are gone with its frame
DisplayCardInfo ==
    /\ pc = "display"
    /\ LET t == detectCardType(card.cardNumber)
           e == card.expiryDate
       IN  /\ card' = [card EXCEPT !.cardType = t]
           /\ IF ExpiryThrows(e)
              THEN /\ out' = out \o DisplayHead(card, t)
                   /\ calls' = calls \o <<"detectCardType", "isCVVValid", "checkExpiry">>
                   /\ exc' = OtherException
                   /\ pc' = "catchAll"
                   /\ UNCHANGED <<month, year, currentMonth, currentYear, log>>
              ELSE /\ month' = stoi(ExpiryMonthText(e))
                   /\ year' = stoi(ExpiryYearText(e))
                   /\ \E cm \in ClockMonths, cy \in ClockYears :
                         /\ currentMonth' = cm
                         /\ currentYear' = cy
                   /\ out' = out \o DisplayHead(card, t)
                               \o << <<"Status: ",
                                       ExpiryStatus(month', year', currentMonth', currentYear')>> >>
                   /\ log' = log \o LogBlock(card')
                   /\ calls' = calls \o <<"detectCardType", "isCVVValid",
                                           "checkExpiry", "logToFile">>
                   /\ exc' = exc
                   /\ pc' = "risk"
    /\ UNCHANGED <<number, expiry, holder, cvvText, cvv, luhnValid, err, logBefore>>

\* line 190
CardRiskScore ==
    /\ pc = "risk"
    /\ \E r \in RiskScores : out' = Append(out, <<"AI Risk Score: ", r>>)
    /\ calls' = Append(calls, "cardRiskScore")
    /\ pc' = "done"
    /\ UNCHANGED <<number, expiry, holder, cvvText, cvv, card, luhnValid,
                   month, year, currentMonth, currentYear,
                   err, log, logBefore, exc>>

\* lines 192-194
CatchCard ==
    /\ pc = "catchCard"
    /\ err' = Append(err, exc.what)
    /\ pc' = "done"
    /\ UNCHANGED <<number, expiry, holder, cvvText, cvv, card, luhnValid,
                   month, year, currentMonth, currentYear,
                   out, log, logBefore, exc, calls>>

\* lines 195-198
CatchAll ==
    /\ pc = "catchAll"
    /\ err' = Append(err, UnexpectedMessage)
    /\ pc' = "done"
    /\ UNCHANGED <<number, expiry, holder, cvvText, cvv, card, luhnValid,
                   month, year, currentMonth, currentYear,
                   out, log, logBefore, exc, calls>>

Next ==
    \/ ReadInput
    \/ FormatGuard
    \/ Construct
    \/ LuhnCheck
    \/ DisplayCardInfo
    \/ CardRiskScore
    \/ CatchCard
    \/ CatchAll

Spec == Init /\ [][Next]_vars

----------------------------------------------------------------------------
(* The expiry classifier on its own: the run from the point where a Card   *)
(* with a Luhn-valid number has been constructed, over a grid of expiries. *)

InitExpiry ==
    /\ pc = "display"
    /\ number = TestVector
    /\ expiry \in ExpiryGrid
    /\ holder = "Asha Rao"
    /\ cvvText = Str(<<1, 2, 3>>)
    /\ cvv = CinInt(cvvText)
    /\ card = CreditCard(number, expiry, holder, cvv)
    /\ luhnValid = validateCardNumber(number)
    /\ month = 0 /\ year = 0 /\ currentMonth = 0 /\ currentYear = 0
    /\ out = Prompts /\ err = <<>>
    /\ log = <<>>
    /\ logBefore = log
    /\ exc = NoException
    /\ calls = <<"validateCardNumber">>

NextExpiry ==
    \/ DisplayCardInfo
    \/ CardRiskScore
    \/ CatchAll

SpecExpiry == InitExpiry /\ [][NextExpiry]_vars

----------------------------------------------------------------------------
(* Vocabulary of the properties *)

HasCall(c) == \E i \in 1..Len(calls) : calls[i] = c
Printed(label, v) ==
    \E i \in 1..Len(out) : Len(out[i]) = 2 /\ out[i][1] = label /\ out[i][2] = v
PrintedLabel(label) ==
    \E i \in 1..Len(out) : Len(out[i]) = 2 /\ out[i][1] = label
InputRead == pc # "start"
LengthInRange(n) == Len(n) >= 13 /\ Len(n) <= 19

\* the Luhn sum as the specification words it: the decimal digits of the
\* string, the k-th of them from the right doubled (less 9 above 9) for even k
DigitsOf(s) == SelectSeq(s, isdigit)
LuhnTerm(d, k) ==
    IF k % 2 = 0 THEN (IF 2 * d > 9 THEN 2 * d - 9 ELSE 2 * d) ELSE d
RECURSIVE LuhnSum(_, _)
LuhnSum(ds, j) ==
    IF j > Len(ds) THEN 0
    ELSE LuhnTerm(ds[j] - 48, Len(ds) - j + 1) + LuhnSum(ds, j + 1)
LuhnPasses(s) == LuhnSum(DigitsOf(s), 1) % 10 = 0

\* the network as a function of the two-character prefix alone
NetworkOfPrefix(p) ==
    CASE p[1] = 52 -> "Visa"
      [] p[1] # 52 /\ p \in { <<53, 49>>, <<53, 50>> } -> "MasterCard"
      [] p[1] # 52 /\ p \in { <<51, 52>>, <<51, 55>> } -> "American Express"
      [] OTHER -> "Unknown"

\* the expiry text begins with a number and has a character at index 3
ExpiryParses(e) ==
    /\ Len(e) >= 3
    /\ (isdigit(e[1]) \/ (e[1] \in {43, 45} /\ isdigit(e[2])))

\* the run got past FormatGuard and LuhnChecker
Validated == InputRead /\ LengthInRange(number) /\ LuhnPasses(number)

----------------------------------------------------------------------------
(* C1 *)

\* C1: a run whose number has length in [13,19] but fails the Luhn check
\* runs no stage after the Luhn check (no network detection, CVV check,
\* expiry classification, card output, risk score or log append) and, once
\* ended, has reported exactly the Luhn error on the error stream.
C1_LuhnFailureAborts ==
    (InputRead /\ LengthInRange(number) /\ ~LuhnPasses(number)) =>
        /\ out = Prompts
        /\ log = logBefore
        /\ card.cardType = ""
        /\ \A i \in 1..Len(calls) : calls[i] = "validateCardNumber"
        /\ pc \in {"guard", "construct", "luhn", "catchCard", "done"}
        /\ (pc = "done" => err = <<LuhnMessage>>)
        /\ (pc # "done" => err = <<>>)

C1_Witness ==
    /\ pc = "done"
    /\ LengthInRange(number) /\ ~LuhnPasses(number)
    /\ err = <<LuhnMessage>>
    /\ calls = <<"validateCardNumber">>

----------------------------------------------------------------------------
(* C2 *)

\* C2: a number shorter than 13 or longer than 19 ends the run with the
\* format error on the error stream, with no Card constructed and no stage
\* run; so whenever a Card exists or a stage has run, the length is in [13,19].
C2_FormatGuardFirst ==
    /\ (InputRead /\ ~LengthInRange(number)) =>
          /\ ~card.exists
          /\ calls = <<>>
          /\ out = Prompts
          /\ log = logBefore
          /\ pc \in {"guard", "catchCard", "done"}
          /\ (pc = "done" => err = <<LengthMessage>>)
          /\ (pc # "done" => err = <<>>)
    /\ (card.exists \/ calls # <<>> \/ log # logBefore) =>
          /\ LengthInRange(number)
          /\ LengthInRange(card.cardNumber)

C2_Witness ==
    /\ pc = "done"
    /\ Len(number) > 19
    /\ err = <<LengthMessage>>
    /\ ~card.exists

----------------------------------------------------------------------------
(* C5 *)

\* C5: for every string of length 13 to 19, validateCardNumber returns true
\* exactly when the Luhn sum over its decimal digits (non-digits skipped
\* without toggling) is divisible by 10; 4539578763621486 validates true and
\* 4539578763621487 validates false.
C5_LuhnChecker ==
    HasCall("validateCardNumber") =>
        /\ LengthInRange(card.cardNumber)
        /\ luhnValid = LuhnPasses(card.cardNumber)
        /\ (card.cardNumber = TestVector => luhnValid)
        /\ (card.cardNumber = TestVectorBumped => ~luhnValid)

C5_Witness ==
    /\ HasCall("validateCardNumber")
    /\ card.cardNumber = TestVectorDashed
    /\ luhnValid

----------------------------------------------------------------------------
(* C6 *)

\* C6: the detected network is a function of the first two characters of the
\* number alone (4x Visa, else 51/52 MasterCard, else 34/37 American Express,
\* else Unknown), and recomputing it for the Card gives the cached value.
C6_NetworkDetector ==
    HasCall("detectCardType") =>
        /\ card.cardType = NetworkOfPrefix(SubSeq(card.cardNumber, 1, 2))
        /\ card.cardType \in {"Visa", "MasterCard", "American Express", "Unknown"}
        /\ detectCardType(card.cardNumber) = card.cardType
        /\ Printed("Card Type: ", card.cardType)

C6_Witness ==
    /\ HasCall("detectCardType")
    /\ SubSeq(card.cardNumber, 1, 2) = <<53, 51>>
    /\ card.cardType = "Unknown"

----------------------------------------------------------------------------
(* C3 *)

FullCalls ==
    <<"validateCardNumber", "detectCardType", "isCVVValid", "checkExpiry",
      "logToFile", "cardRiskScore">>
CvvReported ==
    Printed("CVV Status: ", "Valid") \/ Printed("CVV Status: ", "Invalid")

\* C3 as claimed: every run that passes FormatGuard and LuhnChecker reports
\* the CVV result and goes on to expiry classification, the log append and
\* the risk score.
C3_Original ==
    (pc = "done" /\ Validated) =>
        /\ CvvReported
        /\ calls = FullCalls
        /\ Len(log) > Len(logBefore)

\* C3 amended: every run that passes FormatGuard and LuhnChecker reports the
\* CVV result as Valid or Invalid and goes on to call checkExpiry; the stages
\* run after the CVV check depend on the expiry text alone, not on the CVV:
\* when the expiry text parses they are expiry classification, log append and
\* risk score, and when it does not the run ends in the catch-all.
C3_CvvNeverAborts ==
    (pc = "done" /\ Validated) =>
        /\ CvvReported
        /\ HasCall("isCVVValid") /\ HasCall("checkExpiry")
        /\ IF ExpiryParses(expiry)
           THEN /\ calls = FullCalls
                /\ PrintedLabel("Status: ")
                /\ Len(log) = Len(logBefore) + 5
                /\ PrintedLabel("AI Risk Score: ")
                /\ err = <<>>
           ELSE /\ calls = SubSeq(FullCalls, 1, 4)
                /\ err = <<UnexpectedMessage>>

C3_Witness ==
    /\ pc = "done"
    /\ Validated
    /\ Printed("CVV Status: ", "Invalid")
    /\ calls = FullCalls
    /\ Len(log) = Len(logBefore) + 5

----------------------------------------------------------------------------
(* C4 *)

\* the block the specification describes: holder name, detected network,
\* masked number, expiry string, blank line
ExpectedBlock ==
    << <<"Card Holder: ", holder>>,
       <<"Card Type: ", NetworkOfPrefix(SubSeq(number, 1, 2))>>,
       <<"Masked Card: ", <<MaskPrefix, SubSeq(number, Len(number) - 3, Len(number))>> >>,
       <<"Expiry: ", expiry>>,
       <<"">> >>
LogKept == Len(log) >= Len(logBefore) /\ SubSeq(log, 1, Len(logBefore)) = logBefore

\* C4 as claimed: a run that passes FormatGuard and LuhnChecker appends
\* exactly one block to the log, any other run appends nothing, and earlier
\* log content is never changed.
C4_Original ==
    /\ LogKept
    /\ pc = "done" =>
          log = IF Validated THEN logBefore \o ExpectedBlock ELSE logBefore

\* C4 amended: a run that passes FormatGuard and LuhnChecker and whose
\* expiry text parses (checkExpiry does not throw) appends exactly one block
\* of holder name, detected network, masked number, expiry string and a blank
\* line; every other run appends nothing; earlier log content is never
\* changed or removed.
C4_LogAppend ==
    /\ LogKept
    /\ pc = "done" =>
          log = IF Validated /\ ExpiryParses(expiry)
                THEN logBefore \o ExpectedBlock
                ELSE logBefore
    /\ pc \in {"start", "guard", "construct", "luhn", "display", "catchCard", "catchAll"}
          => log = logBefore

C4_Witness ==
    /\ pc = "done"
    /\ Validated
    /\ logBefore # <<>>
    /\ log = logBefore \o ExpectedBlock

----------------------------------------------------------------------------
(* C7 *)

AllDigits(s) == Len(s) > 0 /\ \A i \in 1..Len(s) : isdigit(s[i])
CvvPolicy(network, digitCount) ==
    \/ (network = "American Express" /\ digitCount = 4)
    \/ (network # "American Express" /\ digitCount = 3)

\* C7: the CVV is judged by the count of digits the user typed, leading zeros
\* included: reported Valid iff (American Express and 4 digits) or (another
\* network and 3 digits).
C7_Claim ==
    (HasCall("isCVVValid") /\ AllDigits(cvvText) /\ Len(cvvText) <= 4) =>
        Printed("CVV Status: ",
                IF CvvPolicy(NetworkOfPrefix(SubSeq(number, 1, 2)), Len(cvvText))
                THEN "Valid" ELSE "Invalid")

----------------------------------------------------------------------------
(* C9 *)

CvvIsNumber(s) ==
    Len(s) > 0 /\ (isdigit(s[1]) \/ (Len(s) > 1 /\ s[1] \in {43, 45} /\ isdigit(s[2])))

\* C9: when the CVV typed is not a number, the run does not go through the
\* normal card display and ends with the generic error line on the error
\* stream (stated for the runs in which the CVV is the only malformed input).
C9_Claim ==
    (Validated /\ ExpiryParses(expiry) /\ ~CvvIsNumber(cvvText)) =>
        /\ ~PrintedLabel("Card Holder: ")
        /\ ~PrintedLabel("CVV Status: ")
        /\ (pc = "done" => err = <<UnexpectedMessage>>)

----------------------------------------------------------------------------
(* C8 *)

ExpiryClassified == HasCall("logToFile")
IsExpired == year < currentYear \/ (year = currentYear /\ month < currentMonth)
IsSoon ==
    \/ (year = currentYear /\ month - currentMonth <= 6)
    \/ (year = currentYear + 1 /\ currentMonth > month)

\* C8: the classifier prints exactly one class: Expired iff year < currentYear
\* or (same year and month < currentMonth); otherwise ExpiringSoon iff (same
\* year and month - currentMonth <= 6) or (next year and currentMonth >
\* month); otherwise Valid. In June 2024: 03/24 Expired, 12/24 ExpiringSoon,
\* 01/26 Valid.
C8_ExpiryClassifier ==
    ExpiryClassified =>
        /\ Cardinality({ c \in {"Expired", "ExpiringSoon", "Valid"} :
                           Printed("Status: ", c) }) = 1
        /\ Printed("Status: ", "Expired") <=> IsExpired
        /\ Printed("Status: ", "ExpiringSoon") <=> (~IsExpired /\ IsSoon)
        /\ Printed("Status: ", "Valid") <=> (~IsExpired /\ ~IsSoon)
        /\ \A m \in 0..13, y \in 2020..2030 :
              expiry = ExpiryText(m, y) => (month = m /\ year = y)
        /\ (currentMonth = 6 /\ currentYear = 2024) =>
              /\ (expiry = ExpiryText(3, 2024) => Printed("Status: ", "Expired"))
              /\ (expiry = ExpiryText(12, 2024) => Printed("Status: ", "ExpiringSoon"))
              /\ (expiry = ExpiryText(1, 2026) => Printed("Status: ", "Valid"))

C8_Witness ==
    /\ ExpiryClassified
    /\ currentMonth = 6 /\ currentYear = 2024
    /\ expiry = ExpiryText(12, 2024)
    /\ Printed("Status: ", "ExpiringSoon")

----------------------------------------------------------------------------
(* C10 *)

MonthsAhead == 12 * (year - currentYear) + month - currentMonth

\* C10: with both months in [1,12], a card classified Valid expires more than
\* 6 calendar months after the current month, and every card expiring 0 to 6
\* months ahead, also across the year boundary, is classified ExpiringSoon.
C10_ValidIsBeyondWindow ==
    (ExpiryClassified /\ month \in 1..12 /\ currentMonth \in 1..12) =>
        /\ (Printed("Status: ", "Valid") => MonthsAhead > 6)
        /\ ((MonthsAhead >= 0 /\ MonthsAhead <= 6) => Printed("Status: ", "ExpiringSoon"))

C10_Witness ==
    /\ ExpiryClassified
    /\ currentMonth = 12 /\ month = 1 /\ year = currentYear + 1
    /\ Printed("Status: ", "ExpiringSoon")

====
